---- MODULE Spec2Model ----
(***************************************************************************)
(* Karasu (format_setup.py): one-shot formatter enforcer for Python repos. *)
(*                                                                         *)
(* A text is a sequence of tokens (TLA+ strings); concatenating the tokens *)
(* gives the bytes of the file.  The literals the code searches for       *)
(* ("ruff-pre-commit", "[tool.ruff]", "pip install ruff", ...) are tokens  *)
(* of their own, line ends and blanks are the tokens "\n" and " ", and     *)
(* names are spelled one character per token, so that `in`, replace,       *)
(* rstrip, split and startswith are computed as Python computes them.      *)
(***************************************************************************)
EXTENDS Naturals, Sequences, FiniteSets, TLC

VARIABLES
    files,     \* root-level files: path -> text, for the files that exist
    dirs,      \* sub-directories of the root: name -> [init, main]
    venv,      \* <root>/.venv
    pc,        \* where main() is: idle, setup, venv, ensure, format, hooks, done
    args,      \* the command line and the lines on stdin of the current run
    handle,    \* venv_python of main(): "venv" or "none"
    names,     \* project_name, project_description, project_version, package_name
    rets,      \* what each ensure_* step returned
    procs,     \* the commands handed to subprocess / the venv builder in this run
    step,      \* what the latest step of main() did
    exit,      \* exit status of the latest finished run, its cause in step
    snap,      \* files, dirs and venv as the current run found them
    follow,    \* how this run relates to the one before it
    prevRets,  \* rets of the dry run before, when this run repeats it for real
    tomllib    \* can the interpreter import tomllib or tomli

vars == <<files, dirs, venv, pc, args, handle, names, rets, procs, step,
          exit, snap, follow, prevRets, tomllib>>

--------------------------------------------------------------------------
(* Python str operations on token sequences *)

NL == "\n"
SP == " "

\* str.isspace() of a token, as rstrip()/strip() need it
IsSpace(tok) == tok \in {" ", "\n", "\t"}

\* old in txt
Contains(txt, pat) ==
    \E i \in 1..(Len(txt) + 1 - Len(pat)) :
        \A j \in 1..Len(pat) : txt[i + j - 1] = pat[j]

\* txt.startswith(pat)
StartsWith(txt, pat) ==
    /\ Len(pat) <= Len(txt)
    /\ \A j \in 1..Len(pat) : txt[j] = pat[j]

\* txt.endswith("\n")
EndsWithNL(txt) == Len(txt) > 0 /\ txt[Len(txt)] = NL

RECURSIVE RStrip(_)
\* txt.rstrip()
RStrip(txt) ==
    IF Len(txt) > 0 /\ IsSpace(txt[Len(txt)])
    THEN RStrip(SubSeq(txt, 1, Len(txt) - 1))
    ELSE txt

RECURSIVE LStrip(_)
\* txt.lstrip()
LStrip(txt) ==
    IF Len(txt) > 0 /\ IsSpace(txt[1]) THEN LStrip(Tail(txt)) ELSE txt

\* txt.strip()
Strip(txt) == LStrip(RStrip(txt))

RECURSIVE ReplaceN(_, _, _, _)
\* txt.replace(old, new, count) scanning left to right; count counts down,
\* and a count above the length of txt replaces every occurrence
ReplaceN(txt, old, new, count) ==
    IF count = 0 \/ Len(txt) < Len(old) THEN txt
    ELSE IF StartsWith(txt, old)
         THEN new \o ReplaceN(SubSeq(txt, Len(old) + 1, Len(txt)), old, new, count - 1)
         ELSE <<Head(txt)>> \o ReplaceN(Tail(txt), old, new, count)

\* txt.replace(old, new)
ReplaceAll(txt, old, new) == ReplaceN(txt, old, new, Len(txt) + 1)

\* txt.replace(old, new, 1)  and  re.sub(old, new, txt, count=1)
ReplaceFirst(txt, old, new) == ReplaceN(txt, old, new, 1)

RECURSIVE CountOcc(_, _)
\* txt.count(pat)
CountOcc(txt, pat) ==
    IF Len(txt) < Len(pat) THEN 0
    ELSE IF StartsWith(txt, pat)
         THEN 1 + CountOcc(SubSeq(txt, Len(pat) + 1, Len(txt)), pat)
         ELSE CountOcc(Tail(txt), pat)

RECURSIVE SplitLines(_)
\* txt.split("\n")
SplitLines(txt) ==
    IF \A i \in 1..Len(txt) : txt[i] # NL THEN <<txt>>
    ELSE LET k == CHOOSE i \in 1..Len(txt) :
                      txt[i] = NL /\ \A j \in 1..(i - 1) : txt[j] # NL
         IN <<SubSeq(txt, 1, k - 1)>> \o SplitLines(SubSeq(txt, k + 1, Len(txt)))

RECURSIVE JoinLines(_)
\* "\n".join(lines)
JoinLines(lines) ==
    IF Len(lines) = 0 THEN <<>>
    ELSE IF Len(lines) = 1 THEN lines[1]
    ELSE lines[1] \o <<NL>> \o JoinLines(Tail(lines))

RECURSIVE IsSubseq(_, _)
\* s is t with some tokens left out (order kept)
IsSubseq(s, t) ==
    IF Len(s) = 0 THEN TRUE
    ELSE IF Len(t) = 0 THEN FALSE
    ELSE IF Head(s) = Head(t) THEN IsSubseq(Tail(s), Tail(t))
    ELSE IsSubseq(s, Tail(t))

--------------------------------------------------------------------------
(* Template store *)

RUFf_REV == "v0.6.9"
BLACK_REV == "24.10.0"

EDITORCONFIG ==
    <<"root = true\n\n[*]\nend_of_line = lf\ninsert_final_newline = true\nindent_style = space\nindent_size = 4\n\n[*.{py,pyi}]\ntrim_trailing_whitespace = true\n\n[*.md]\ntrim_trailing_whitespace = false",
      NL>>

PRECOMMIT_RUFF ==
    <<"repos:", NL,
      "  - repo: https://github.com/astral-sh/", "ruff-pre-commit", NL,
      "    rev: ", RUFf_REV, NL,
      "    hooks:", NL,
      "      - id: ruff", NL,
      "        args: [--fix]", NL,
      "      - id: ruff-format", NL>>

PRECOMMIT_BLACK ==
    <<"  - repo: https://github.com/", "psf/black", NL,
      "    rev: ", BLACK_REV, NL,
      "    hooks:", NL,
      "      - id: black", NL>>

\* the literal '"py311"' of both pyproject blocks
PY311 == <<"\"py", "3", "1", "1", "\"">>

PYPROJECT_RUFF_BLOCK ==
    <<"[tool.ruff]", NL,
      "line-length = 100", NL,
      "target-version = ">> \o PY311 \o <<NL,
      "exclude = [\n    \".git\",\n    \"__pycache__\",\n    \"build\",\n    \"dist\",\n    \".eggs\",\n    \"*.egg-info\",\n    \".venv\",\n    \"venv\",\n    \".mypy_cache\",\n    \".pytest_cache\",\n    \"htmlcov\",\n]", NL,
      NL,
      "[tool.ruff.lint]", NL,
      "select = [\"E\", \"F\", \"I\", \"N\", \"W\", \"UP\"]", NL,
      "ignore = [\"E203\", \"E501\"]", NL,
      NL,
      "[tool.ruff.lint.isort]", NL,
      "combine-as-imports = true", NL,
      NL,
      "[tool.ruff.format]", NL,
      "quote-style = \"double\"", NL>>

PYPROJECT_BLACK_BLOCK ==
    <<"[tool.black]", NL,
      "line-length = 100", NL,
      "target-version = [">> \o PY311 \o <<"]", NL,
      "extend-exclude = '''\n/(\n  \\.eggs\n  | \\.git\n  | \\.hg\n  | \\.mypy_cache\n  | \\.tox\n  | \\.venv\n  | build\n  | dist\n)/\n'''", NL>>

MINIMAL_PYPROJECT_BUILD ==
    <<"[build-system]", NL,
      "requires = [\"setuptools>=45\", \"wheel\"]", NL,
      "build-backend = \"setuptools.build_meta\"", NL>>

BLACK_DEP_STEP == <<NL, "        ", "pip install black">>

BLACK_CHECK_STEP ==
    <<"    - name: Format check with Black (backup)", NL,
      "      run: |", NL,
      "        ", "black --check", " .", NL>>

\* CI_TEMPLATE.format(PYVER=pyver, BLACK_DEP=black_dep, BLACK_STEP=black_step)
CI_TEMPLATE(pyver, black_dep, black_step) ==
    <<"name: CI\n\non:\n  push:\n    branches: [ main, master, develop ]\n  pull_request:\n    branches: [ main, master, develop ]\n\njobs:\n  lint:\n    runs-on: ubuntu-latest\n    steps:\n    - uses: actions/checkout@v4\n\n    - name: Set up Python\n      uses: actions/setup-python@v5\n      with:\n        python-version: '">>
    \o pyver \o
    <<"'", NL, NL,
      "    - name: Install dev deps", NL,
      "      run: |", NL,
      "        python -m pip install --upgrade pip", NL,
      "        ", "pip install ruff">>
    \o black_dep \o
    <<NL, NL,
      "    - name: Format check with Ruff", NL,
      "      run: |", NL,
      "        ", "ruff format --check", " .", NL,
      NL,
      "    - name: Lint with Ruff", NL,
      "      run: |", NL,
      "        ", "ruff check", " .", NL,
      NL>>
    \o black_step \o <<NL>>

REQ_DEV_HEADER == <<"#", " Development dependencies", NL>>

\* MAIN_PY_TEMPLATE.format(name=name, description=description)
MAIN_PY_TEMPLATE(name, description) ==
    <<"#!/usr/bin/env python3\n\"\"\"\n">> \o description \o <<"\n\nUsage:\n  ">>
    \o name \o
    <<" [options]\n\n\"\"\"\n\nfrom __future__ import annotations\n\nimport argparse\nimport sys\n\n\ndef main() -> int:\n    \"\"\"Main entry point.\"\"\"\n    ap = argparse.ArgumentParser(description=\"">>
    \o description \o
    <<"\")\n    # Add your arguments here\n\n    args = ap.parse_args()\n\n    # Your code here\n\n    return 0\n\n\nif __name__ == \"__main__\":\n    sys.exit(main())\n">>

--------------------------------------------------------------------------
(* File upsert engine.  The root-level files are a function from path to  *)
(* text whose domain is the set of existing files.                        *)

P_EDITORCONFIG == ".editorconfig"
P_PRECOMMIT == ".pre-commit-config.yaml"
P_PYPROJECT == "pyproject.toml"
P_CI == ".github/workflows/ci.yml"
P_REQDEV == "requirements-dev.txt"
P_ROOTMAIN == "main.py"

\* path.write_text(content)
WriteText(fs, path, content) ==
    [q \in DOMAIN fs \cup {path} |-> IF q = path THEN content ELSE fs[q]]

\* path.unlink()
Unlink(fs, path) == [q \in DOMAIN fs \ {path} |-> fs[q]]

\* upsert_file without its dry-run test
upsert_file_wet(fs, path, content, dry) ==
    IF path \in DOMAIN fs THEN [fs |-> fs, ret |-> FALSE]
    ELSE [fs |-> WriteText(fs, path, content), ret |-> TRUE]

upsert_file(fs, path, content, dry) ==
    IF path \in DOMAIN fs THEN [fs |-> fs, ret |-> FALSE]
    ELSE [fs |-> IF dry THEN fs ELSE WriteText(fs, path, content), ret |-> TRUE]

\* a merge step that reports a change only when it writes
PersistSilentDry(fs, path, txt, changed, dry) ==
    [fs |-> IF changed /\ ~dry THEN WriteText(fs, path, txt) ELSE fs,
     ret |-> changed /\ ~dry]

\* the result of an ensure_* step on an existing file: write unless dry
Persist(fs, path, txt, changed, dry) ==
    [fs |-> IF changed /\ ~dry THEN WriteText(fs, path, txt) ELSE fs,
     ret |-> changed]

ensure_editorconfig(fs, dry) ==
    IF P_EDITORCONFIG \in DOMAIN fs THEN [fs |-> fs, ret |-> FALSE]
    ELSE upsert_file(fs, P_EDITORCONFIG, EDITORCONFIG, dry)

\* ensure_precommit without its look for the ruff marker
PrecommitMergeBlind(txt, ruff_only) ==
    [txt |-> PRECOMMIT_RUFF \o (IF txt # <<>> THEN <<NL>> \o txt ELSE <<>>),
     changed |-> TRUE]

\* the text ensure_precommit computes from an existing file
PrecommitMerge(txt, ruff_only) ==
    LET noRuff == ~Contains(txt, <<"ruff-pre-commit">>)
        t1 == IF noRuff
              THEN PRECOMMIT_RUFF \o (IF txt # <<>> THEN <<NL>> \o txt ELSE <<>>)
              ELSE txt
        noBlack == ~ruff_only /\ ~Contains(t1, <<"psf/black">>)
        t2 == IF noBlack THEN RStrip(t1) \o <<NL>> \o PRECOMMIT_BLACK ELSE t1
    IN [txt |-> t2, changed |-> noRuff \/ noBlack]

ensure_precommit(fs, ruff_only, dry) ==
    IF P_PRECOMMIT \in DOMAIN fs
    THEN LET m == PrecommitMerge(fs[P_PRECOMMIT], ruff_only)
         IN Persist(fs, P_PRECOMMIT, m.txt, m.changed, dry)
    ELSE upsert_file(fs, P_PRECOMMIT,
                     PRECOMMIT_RUFF \o (IF ruff_only THEN <<>> ELSE PRECOMMIT_BLACK),
                     dry)

\* pyver.replace(".", "")
NoDots(pyver) == SelectSeq(pyver, LAMBDA c : c # ".")

\* BLOCK.replace('"py311"', f'"py{pyver.replace(".", "")}"')
ForPyVer(block, pyver) ==
    ReplaceAll(block, PY311, <<"\"py">> \o NoDots(pyver) \o <<"\"">>)

\* x or default, for an optional string held as <<>> when None or empty
OrDefault(x, default) == IF x = <<>> THEN default ELSE x

DEFAULT_VERSION == <<"0", ".", "1", ".", "0">>
DEFAULT_DESCRIPTION == <<"C", "L", "I", " ", "t", "o", "o", "l">>

\* entry_point of ensure_pyproject
EntryPoint(package_name) ==
    IF package_name # <<>> THEN package_name \o <<".main:main">> ELSE <<"main:main">>

ScriptsEntry(project_name, package_name) ==
    <<"[project.scripts]", NL>> \o project_name \o <<" = \"">>
    \o EntryPoint(package_name) \o <<"\"", NL>>

ProjectBlock(pyver, project_name, project_description, project_version, package_name) ==
    <<"[project]", NL, "name = \"">> \o project_name \o <<"\"", NL,
      "version = \"">> \o OrDefault(project_version, DEFAULT_VERSION) \o <<"\"", NL,
      "description = \"">> \o OrDefault(project_description, DEFAULT_DESCRIPTION)
    \o <<"\"", NL,
      "requires-python = \">=">> \o pyver \o <<"\"", NL, NL>>
    \o ScriptsEntry(project_name, package_name) \o <<NL>>

\* tokens that start with "[" / with "[project"
SectionHeaders ==
    {"[project]", "[project.scripts]", "[project.urls]", "[build-system]",
     "[tool.ruff]", "[tool.ruff.lint]", "[tool.ruff.lint.isort]",
     "[tool.ruff.format]", "[tool.black]", "[tool.setuptools]", "[tool.mypy]"}
ProjectHeaders == {"[project]", "[project.scripts]", "[project.urls]"}

\* the index lines.insert() gets in ensure_pyproject: the first line after a
\* "[project..." line that starts another section, else len(lines).
\* The loop is run as the code runs it, line by line.
RECURSIVE ScanInsertIdx(_, _, _)
ScanInsertIdx(lines, i, in_project) ==
    IF i > Len(lines) THEN Len(lines)
    ELSE LET line == lines[i]
             s == Strip(line)
         IN IF Len(s) > 0 /\ s[1] \in ProjectHeaders
            THEN ScanInsertIdx(lines, i + 1, TRUE)
            ELSE IF in_project /\ Len(s) > 0 /\ s[1] \in SectionHeaders
                    /\ ~(Len(line) > 0 /\ line[1] \in ProjectHeaders)
                 THEN i - 1
                 ELSE ScanInsertIdx(lines, i + 1, in_project)

\* lines.insert(idx, block), idx counted from 0
InsertLine(lines, idx, block) ==
    SubSeq(lines, 1, idx) \o <<block>> \o SubSeq(lines, idx + 1, Len(lines))

\* a block written over the text instead of after it
BlockOnly(txt, block) == block

\* txt.rstrip() + ("\n\n" if not txt.endswith("\n") else "\n") + block
AppendBlock(txt, block) ==
    RStrip(txt) \o (IF ~EndsWithNL(txt) THEN <<NL, NL>> ELSE <<NL>>) \o block

\* the text ensure_pyproject computes from an existing file
PyprojectMerge(txt, ruff_only, pyver, project_name, project_description, project_version, package_name) ==
    LET hasName == project_name # <<>>
        addProject == hasName /\ ~Contains(txt, <<"[project]">>)
        addScripts == /\ ~addProject /\ hasName
                      /\ ~Contains(txt, <<"[project.scripts]">>)
                      /\ Contains(txt, <<"[project]">>)
        block == ProjectBlock(pyver, project_name, project_description,
                              project_version, package_name)
        lines == SplitLines(txt)
        t1 == IF addProject
              THEN IF Contains(txt, <<"[build-system]">>)
                   THEN ReplaceFirst(txt, <<"[build-system]">>,
                                     <<"[build-system]", NL, NL>> \o block)
                   ELSE block \o txt
              ELSE IF addScripts
              THEN JoinLines(InsertLine(lines, ScanInsertIdx(lines, 1, FALSE),
                       <<NL>> \o ScriptsEntry(project_name, package_name)))
              ELSE txt
        addRuff == ~Contains(t1, <<"[tool.ruff]">>)
        t2 == IF addRuff THEN AppendBlock(t1, ForPyVer(PYPROJECT_RUFF_BLOCK, pyver))
              ELSE t1
        addBlack == ~ruff_only /\ ~Contains(t2, <<"[tool.black]">>)
        t3 == IF addBlack THEN AppendBlock(t2, ForPyVer(PYPROJECT_BLACK_BLOCK, pyver))
              ELSE t2
    IN [txt |-> t3, changed |-> addProject \/ addScripts \/ addRuff \/ addBlack]

\* the body of a new pyproject.toml
PyprojectNew(ruff_only, pyver, project_name, project_description, project_version, package_name) ==
    MINIMAL_PYPROJECT_BUILD \o <<NL, NL>>
    \o (IF project_name # <<>>
        THEN ProjectBlock(pyver, project_name, project_description,
                          project_version, package_name)
        ELSE <<>>)
    \o ForPyVer(PYPROJECT_RUFF_BLOCK, pyver)
    \o (IF ruff_only THEN <<>>
        ELSE <<NL, NL>> \o ForPyVer(PYPROJECT_BLACK_BLOCK, pyver))

ensure_pyproject(fs, ruff_only, pyver, dry, project_name, project_description, project_version, package_name) ==
    IF P_PYPROJECT \in DOMAIN fs
    THEN LET m == PyprojectMerge(fs[P_PYPROJECT], ruff_only, pyver, project_name,
                                 project_description, project_version, package_name)
         IN Persist(fs, P_PYPROJECT, m.txt, m.changed, dry)
    ELSE upsert_file(fs, P_PYPROJECT,
                     PyprojectNew(ruff_only, pyver, project_name, project_description,
                                  project_version, package_name),
                     dry)

\* the text ensure_ci computes from an existing file
CiMerge(txt, ruff_only, pyver) ==
    LET black_dep == IF ruff_only THEN <<>> ELSE BLACK_DEP_STEP
        black_step == IF ruff_only THEN <<>> ELSE BLACK_CHECK_STEP
        hasRuffDep == Contains(txt, <<"pip install ruff">>)
        hasBlackDep == Contains(txt, <<"pip install black">>)
    IN IF ~Contains(txt, <<"ruff format --check">>) \/ ~Contains(txt, <<"ruff check">>)
       THEN [txt |-> RStrip(txt) \o <<NL, NL>>
                     \o CI_TEMPLATE(pyver, black_dep, black_step),
             changed |-> TRUE]
       ELSE IF ruff_only THEN [txt |-> txt, changed |-> FALSE]
       ELSE IF ~Contains(txt, <<"black --check">>)
       THEN LET t1 == IF hasRuffDep /\ ~hasBlackDep
                      THEN ReplaceAll(txt, <<"pip install ruff">>,
                                      <<"pip install ruff">> \o BLACK_DEP_STEP)
                      ELSE txt
                t2 == IF ~EndsWithNL(t1) THEN t1 \o <<NL>> ELSE t1
            IN [txt |-> t2 \o <<NL>> \o BLACK_CHECK_STEP, changed |-> TRUE]
       ELSE IF ~hasBlackDep /\ hasRuffDep
       THEN [txt |-> ReplaceFirst(txt, <<"pip install ruff">>,
                                  <<"pip install ruff", NL, "        ",
                                    "pip install black">>),
             changed |-> TRUE]
       ELSE [txt |-> txt, changed |-> FALSE]

ensure_ci(fs, ruff_only, pyver, dry) ==
    IF P_CI \in DOMAIN fs
    THEN LET m == CiMerge(fs[P_CI], ruff_only, pyver)
         IN Persist(fs, P_CI, m.txt, m.changed, dry)
    ELSE upsert_file(fs, P_CI,
                     CI_TEMPLATE(pyver,
                                 IF ruff_only THEN <<>> ELSE BLACK_DEP_STEP,
                                 IF ruff_only THEN <<>> ELSE BLACK_CHECK_STEP),
                     dry)

\* want of ensure_requirements_dev; each entry is <<package name, pin>>
Want(ruff_only) ==
    <<<<"ruff", ">=0.6.9">>, <<"pre-commit", ">=3.0.0">>>>
    \o (IF ruff_only THEN <<>> ELSE <<<<"black", ">=24.10.0">>>>)

\* w.split('>')[0] of a wanted entry
PkgName(w) == <<w[1]>>

\* re.search(rf"(?m)^{re.escape(name)}", txt) is not None
LineStartsWith(txt, name) ==
    \E i \in 1..Len(txt) :
        /\ i = 1 \/ txt[i - 1] = NL
        /\ StartsWith(SubSeq(txt, i, Len(txt)), name)

\* missing without the search for the package names
MissingAll(txt, ruff_only) == Want(ruff_only)

\* missing of ensure_requirements_dev
Missing(txt, ruff_only) ==
    SelectSeq(Want(ruff_only), LAMBDA w : ~LineStartsWith(txt, PkgName(w)))

\* the text ensure_requirements_dev writes for an existing file
ReqDevMerge(txt, ruff_only) ==
    LET missing == Missing(txt, ruff_only)
        t1 == IF ~StartsWith(Strip(txt), <<"#">>) THEN REQ_DEV_HEADER \o txt ELSE txt
    IN [txt |-> IF missing = <<>> THEN txt
                ELSE RStrip(t1) \o <<NL>> \o JoinLines(missing) \o <<NL>>,
        changed |-> missing # <<>>]

ensure_requirements_dev(fs, ruff_only, dry) ==
    IF P_REQDEV \in DOMAIN fs
    THEN LET m == ReqDevMerge(fs[P_REQDEV], ruff_only)
         IN Persist(fs, P_REQDEV, m.txt, m.changed, dry)
    ELSE upsert_file(fs, P_REQDEV,
                     REQ_DEV_HEADER \o JoinLines(Want(ruff_only)) \o <<NL>>, dry)

--------------------------------------------------------------------------
(* Names.  A name is a sequence of one-character strings.                  *)

UpperCase == <<"A", "B", "C", "D", "E", "F", "G", "H", "I", "J", "K", "L", "M",
               "N", "O", "P", "Q", "R", "S", "T", "U", "V", "W", "X", "Y", "Z">>
LowerCase == <<"a", "b", "c", "d", "e", "f", "g", "h", "i", "j", "k", "l", "m",
               "n", "o", "p", "q", "r", "s", "t", "u", "v", "w", "x", "y", "z">>
Digits == {"0", "1", "2", "3", "4", "5", "6", "7", "8", "9"}

\* c.lower()
Lower(c) ==
    IF \E i \in 1..26 : UpperCase[i] = c
    THEN LowerCase[CHOOSE i \in 1..26 : UpperCase[i] = c]
    ELSE c

\* s.replace(a, b) for single characters a and b
ReplaceChar(s, a, b) == [i \in 1..Len(s) |-> IF s[i] = a THEN b ELSE s[i]]

\* s.lower()
LowerStr(s) == [i \in 1..Len(s) |-> Lower(s[i])]

infer_name_from_directory(rootname) ==
    ReplaceChar(ReplaceChar(LowerStr(rootname), " ", "-"), "_", "-")

RECURSIVE CollapseHyphens(_)
\* re.sub(r"-+", "-", s)
CollapseHyphens(s) ==
    IF Len(s) < 2 THEN s
    ELSE IF s[1] = "-" /\ s[2] = "-" THEN CollapseHyphens(Tail(s))
    ELSE <<s[1]>> \o CollapseHyphens(Tail(s))

RECURSIVE StripHyphens(_)
\* s.strip("-")
StripHyphens(s) ==
    IF Len(s) > 0 /\ s[1] = "-" THEN StripHyphens(Tail(s))
    ELSE IF Len(s) > 0 /\ s[Len(s)] = "-" THEN StripHyphens(SubSeq(s, 1, Len(s) - 1))
    ELSE s

MY_TOOL == <<"m", "y", "-", "t", "o", "o", "l">>

\* validate_name without the re.sub(r"-+", "-", ...) step
validate_name_no_collapse(name) ==
    LET swapped == ReplaceChar(ReplaceChar(LowerStr(name), "_", "-"), " ", "-")
        kept == SelectSeq(swapped,
                    LAMBDA c : c = "-" \/ c \in Digits
                               \/ \E i \in 1..26 : LowerCase[i] = c)
        normalized == StripHyphens(kept)
    IN IF normalized = <<>> THEN MY_TOOL ELSE normalized

validate_name(name) ==
    LET swapped == ReplaceChar(ReplaceChar(LowerStr(name), "_", "-"), " ", "-")
        kept == SelectSeq(swapped,
                    LAMBDA c : c = "-" \/ c \in Digits
                               \/ \E i \in 1..26 : LowerCase[i] = c)
        normalized == StripHyphens(CollapseHyphens(kept))
    IN IF normalized = <<>> THEN MY_TOOL ELSE normalized

\* validate_version returns its argument on both paths
validate_version(version) == version

\* name.replace("-", "_"): the importable package name of a directory name
ModuleName(name) == ReplaceChar(name, "-", "_")

--------------------------------------------------------------------------
(* Package layout.  dirs maps the name of each existing sub-directory of  *)
(* the root to [init: does __init__.py exist, main: <<>> when the          *)
(* directory has no main.py, else <<its text>>].                          *)

NoDir == [init |-> FALSE, main |-> <<>>]

\* item.name.startswith(".")
Hidden(d) == Len(d) > 0 /\ d[1] = "."

PutDir(ds, d, rec) == [e \in DOMAIN ds \cup {d} |-> IF e = d THEN rec ELSE ds[e]]

\* a token no TOML parser accepts (an unresolved merge conflict)
BAD_TOML == "<<<<<<< HEAD"

\* does tomllib.load / tomli.load accept the text: no stray junk and no
\* table defined twice
TomlValid(txt) ==
    /\ ~Contains(txt, <<BAD_TOML>>)
    /\ \A h \in SectionHeaders : CountOcc(txt, <<h>>) <= 1

PKG_OPEN == "packages = [\""
PKG_CLOSE == "\"]"

\* data["tool"]["setuptools"].get("packages", [])[0], <<>> when there is none
DeclaredPackage(txt) ==
    IF Contains(txt, <<"[tool.setuptools]">>) /\ Contains(txt, <<PKG_OPEN>>)
    THEN LET i == CHOOSE k \in 1..Len(txt) : txt[k] = PKG_OPEN
             rest == SubSeq(txt, i + 1, Len(txt))
         IN IF Contains(rest, <<PKG_CLOSE>>)
            THEN SubSeq(rest, 1, (CHOOSE k \in 1..Len(rest) :
                               rest[k] = PKG_CLOSE
                               /\ \A j \in 1..(k - 1) : rest[j] # PKG_CLOSE) - 1)
            ELSE <<>>
    ELSE <<>>

\* every value detect_package_structure can return or raise, given whether
\* a TOML parser can be imported; root.iterdir() yields in any order, and a
\* parse error is not among the exceptions the function catches
DetectResults(fs, ds, parser) ==
    LET scan == {d \in DOMAIN ds : ~Hidden(d) /\ ds[d].init}
        none == [kind |-> "none", name |-> <<>>, path |-> <<>>]
    IN IF scan # {}
       THEN {[kind |-> "found", name |-> ModuleName(d), path |-> d] : d \in scan}
       ELSE IF P_PYPROJECT \in DOMAIN fs /\ parser
       THEN IF ~TomlValid(fs[P_PYPROJECT])
            THEN {[kind |-> "raise", name |-> <<>>, path |-> <<>>]}
            ELSE LET p == DeclaredPackage(fs[P_PYPROJECT])
                 IN IF p # <<>> /\ p \in DOMAIN ds /\ ds[p].init
                    THEN {[kind |-> "found", name |-> ModuleName(p), path |-> p]}
                    ELSE {none}
       ELSE {none}

\* the file effects of initialize_project once the three values are known
InitializeDirs(ds, name, description, dry) ==
    LET existed == name \in DOMAIN ds
        d1 == IF ~existed /\ ~dry
              THEN PutDir(ds, name, [init |-> TRUE, main |-> <<>>])
              ELSE ds
        have == name \in DOMAIN d1
        main_missing == ~have \/ d1[name].main = <<>>
        template == MAIN_PY_TEMPLATE(name, description)
        d2 == IF main_missing /\ ~dry
              THEN PutDir(d1, name, [d1[name] EXCEPT !.main = <<template>>])
              ELSE d1
        main_py_was_created == main_missing /\ ~dry
        rewrite == /\ name \in DOMAIN d2 /\ d2[name].main # <<>> /\ ~dry
                   /\ (main_py_was_created \/ Contains(d2[name].main[1], MY_TOOL))
    IN IF rewrite THEN PutDir(d2, name, [d2[name] EXCEPT !.main = <<template>>])
       ELSE d2

\* a conversion that clears the root of every other directory
ConvertFlatAlone(fs, ds, potential_name) ==
    [fs |-> Unlink(fs, P_ROOTMAIN),
     dirs |-> [e \in {potential_name} |->
                 [init |-> TRUE, main |-> <<fs[P_ROOTMAIN]>>]]]

\* the flat-to-package conversion of main(): new files and directories
ConvertFlat(fs, ds, potential_name) ==
    [fs |-> Unlink(fs, P_ROOTMAIN),
     dirs |-> PutDir(ds, potential_name,
                     [init |-> TRUE, main |-> <<fs[P_ROOTMAIN]>>])]

--------------------------------------------------------------------------
(* Environment bootstrapper and command runner.  venv is the state of     *)
(* <root>/.venv: does the directory exist, does bin/python exist, and the  *)
(* tools whose scripts pip has put into bin/.                              *)

RUFF == <<"r", "u", "f", "f">>
BLACK == <<"b", "l", "a", "c", "k">>
PRE_COMMIT == <<"p", "r", "e", "-", "c", "o", "m", "m", "i", "t">>
PIP == <<"p", "i", "p">>

NoVenv == [exists |-> FALSE, python |-> FALSE, bin |-> {}]

\* deps of ensure_venv_and_deps
\* ensure_venv_and_deps that installs black whatever the mode
Deps_with_black(ruff_only) == {RUFF, PRE_COMMIT, BLACK}

Deps(ruff_only) == {RUFF, PRE_COMMIT} \cup (IF ruff_only THEN {} ELSE {BLACK})

\* what the world can answer to ensure_venv_and_deps
VenvOutcomes == {"mkdir_raises", "create_raises", "no_python", "pip_fails", "ok"}

\* ensure_venv_and_deps under one outcome of the builder and of pip;
\* handle is "venv" for the path of the environment's python, "none" for None
ensure_venv_and_deps(v, ruff_only, dry, outcome) ==
    IF v.exists
    THEN [venv |-> v, handle |-> "venv", procs |-> {}, warns |-> {}]
    ELSE IF dry
    THEN [venv |-> v, handle |-> "venv", procs |-> {}, warns |-> {}]
    ELSE IF outcome = "mkdir_raises"
    THEN [venv |-> v, handle |-> "none", procs |-> {},
          warns |-> {"Failed to create .venv"}]
    ELSE IF outcome = "create_raises"
    THEN [venv |-> [exists |-> TRUE, python |-> FALSE, bin |-> {}],
          handle |-> "none",
          procs |-> {[how |-> "builder", name |-> PIP]},
          warns |-> {"Failed to create .venv"}]
    ELSE IF outcome = "no_python"
    THEN [venv |-> [exists |-> TRUE, python |-> FALSE, bin |-> {}],
          handle |-> "none",
          procs |-> {[how |-> "builder", name |-> PIP]},
          warns |-> {".venv created but Python not found"}]
    ELSE IF outcome = "pip_fails"
    THEN [venv |-> [exists |-> TRUE, python |-> TRUE, bin |-> {}],
          handle |-> "none",
          procs |-> {[how |-> "builder", name |-> PIP], [how |-> "module", name |-> PIP]},
          warns |-> {"Failed to install dependencies"}]
    ELSE [venv |-> [exists |-> TRUE, python |-> TRUE, bin |-> Deps(ruff_only)],
          handle |-> "venv",
          procs |-> {[how |-> "builder", name |-> PIP], [how |-> "module", name |-> PIP]},
          warns |-> {}]

\* get_tool_command that always goes through the environment's python
get_tool_command_venv_only(v, h, tool) ==
    IF tool \in v.bin
    THEN [how |-> "bin", name |-> tool]
    ELSE [how |-> "module", name |-> ModuleName(tool)]

\* how: "bin" = the script beside the environment's python, "module" =
\* python -m <name>, "path" = the bare name looked up on the search path
get_tool_command(v, h, tool) ==
    IF h = "venv"
    THEN IF tool \in v.bin
         THEN [how |-> "bin", name |-> tool]
         ELSE [how |-> "module", name |-> ModuleName(tool)]
    ELSE [how |-> "path", name |-> tool]

\* what subprocess.run([*cmd, "--version"]) can do: raise FileNotFoundError,
\* return non-zero, or return 0
VersionOutcomes(v, cmd) ==
    IF cmd.how = "bin" THEN {"fail", "ok"}
    ELSE IF cmd.how = "module"
    THEN IF v.python THEN {"fail", "ok"} ELSE {"notfound"}
    ELSE {"notfound", "fail", "ok"}

\* a run of a formatter: return code 0 with output, 0 without, or non-zero
ToolRuns == {"changed", "clean", "fail"}

\* format_code that takes only status 0 of ruff check --fix for success
format_code_zero_only(v, ruff_only, dry, h, rv, fmt, chk, bv, blk) ==
    LET ruff_cmd == get_tool_command(v, h, RUFF)
        black_cmd == get_tool_command(v, h, BLACK)
        f1 == fmt = "changed"
        f2 == f1 \/ chk = 0
        f3 == f2 \/ (~ruff_only /\ bv = "ok" /\ blk = "changed")
    IN IF dry
       THEN [ret |-> TRUE, procs |-> {}, warns |-> {}, checkrc |-> "none"]
       ELSE IF rv # "ok"
       THEN [ret |-> FALSE, procs |-> {ruff_cmd}, warns |-> {"ruff not found"},
             checkrc |-> "none"]
       ELSE [ret |-> f3,
             procs |-> {ruff_cmd} \cup (IF ruff_only THEN {} ELSE {black_cmd}),
             warns |-> (IF fmt = "fail" THEN {"ruff format failed"} ELSE {})
                       \cup (IF chk # 0 THEN {"ruff check had errors"} ELSE {})
                       \cup (IF ~ruff_only /\ bv = "notfound"
                             THEN {"black not found"} ELSE {}),
             checkrc |-> IF chk = 0 THEN "0" ELSE IF chk = 1 THEN "1" ELSE "2"]

\* format_code under one outcome of each child process
format_code(v, ruff_only, dry, h, rv, fmt, chk, bv, blk) ==
    LET ruff_cmd == get_tool_command(v, h, RUFF)
        black_cmd == get_tool_command(v, h, BLACK)
        f1 == fmt = "changed"
        f2 == f1 \/ chk \in {0, 1}
        f3 == f2 \/ (~ruff_only /\ bv = "ok" /\ blk = "changed")
    IN IF dry
       THEN [ret |-> TRUE, procs |-> {}, warns |-> {}, checkrc |-> "none"]
       ELSE IF rv # "ok"
       THEN [ret |-> FALSE, procs |-> {ruff_cmd}, warns |-> {"ruff not found"},
             checkrc |-> "none"]
       ELSE [ret |-> f3,
             procs |-> {ruff_cmd} \cup (IF ruff_only THEN {} ELSE {black_cmd}),
             warns |-> (IF fmt = "fail" THEN {"ruff format failed"} ELSE {})
                       \cup (IF chk \notin {0, 1} THEN {"ruff check had errors"} ELSE {})
                       \cup (IF ~ruff_only /\ bv = "notfound"
                             THEN {"black not found"} ELSE {}),
             checkrc |-> IF chk = 0 THEN "0" ELSE IF chk = 1 THEN "1" ELSE "2"]

\* install_precommit_hooks under one outcome of each child process
install_precommit_hooks(fs, v, dry, h, pv, inst) ==
    LET precommit_cmd == get_tool_command(v, h, PRE_COMMIT)
    IN IF dry THEN [ret |-> TRUE, procs |-> {}, warns |-> {}]
       ELSE IF pv # "ok"
       THEN [ret |-> FALSE, procs |-> {precommit_cmd},
             warns |-> {"pre-commit not found"}]
       ELSE IF P_PRECOMMIT \notin DOMAIN fs
       THEN [ret |-> FALSE, procs |-> {precommit_cmd},
             warns |-> {".pre-commit-config.yaml not found"}]
       ELSE IF inst = "fail"
       THEN [ret |-> FALSE, procs |-> {precommit_cmd},
             warns |-> {"pre-commit install failed"}]
       ELSE [ret |-> TRUE, procs |-> {precommit_cmd}, warns |-> {}]

--------------------------------------------------------------------------
(* Project initializer: the prompts.  stdin is the sequence of lines the   *)
(* user types; a prompt that finds no line left gets EOFError.             *)

\* how many of the three prompts initialize_project shows
Prompts(name, description, version) ==
    (IF name = <<>> THEN 1 ELSE 0) + (IF description = <<>> THEN 1 ELSE 0)
    + (IF version = <<>> THEN 1 ELSE 0)

\* initialize_project with the package directory made before the prompts
initialize_project_mkdir_first(ds, rootname, name, description, version, dry, stdin) ==
    LET n == validate_name(OrDefault(name, infer_name_from_directory(rootname)))
        made == PutDir(ds, n, [init |-> TRUE, main |-> <<>>])
    IN [cancelled |-> Prompts(name, description, version) > Len(stdin),
        name |-> n,
        description |-> OrDefault(description, DEFAULT_DESCRIPTION),
        version |-> OrDefault(version, DEFAULT_VERSION),
        package_name |-> ModuleName(n),
        dirs |-> IF dry THEN ds ELSE made]

\* initialize_project: [cancelled, name, description, version, package_name, dirs]
initialize_project(ds, rootname, name, description, version, dry, stdin) ==
    LET k1 == IF name = <<>> THEN 1 ELSE 0
        k2 == k1 + (IF description = <<>> THEN 1 ELSE 0)
        k3 == k2 + (IF version = <<>> THEN 1 ELSE 0)
        cancelled == k3 > Len(stdin)
        name1 == IF name = <<>>
                 THEN OrDefault(Strip(stdin[k1]), infer_name_from_directory(rootname))
                 ELSE name
        name2 == validate_name(name1)
        description1 == IF description = <<>>
                        THEN OrDefault(Strip(stdin[k2]), DEFAULT_DESCRIPTION)
                        ELSE description
        version1 == validate_version(IF version = <<>>
                                     THEN OrDefault(Strip(stdin[k3]), DEFAULT_VERSION)
                                     ELSE version)
    IN IF cancelled
       THEN [cancelled |-> TRUE, name |-> <<>>, description |-> <<>>,
             version |-> <<>>, package_name |-> <<>>, dirs |-> ds]
       ELSE [cancelled |-> FALSE, name |-> name2, description |-> description1,
             version |-> version1, package_name |-> ModuleName(name2),
             dirs |-> InitializeDirs(ds, name2, description1, dry)]

--------------------------------------------------------------------------
(* Inputs: the projects the tool is started in, and its command lines.     *)

\* name of the project root directory
ROOT_NAME == <<"M", "y", "_", "T", "o", "o", "l">>
\* --name on the command line, and a name typed at the prompt
CLI_NAME == <<"A", "c", "m", "e", " ", "C", "L", "I", "!">>
TYPED_NAME == <<" ", "a", "c", "m", "e", "_", "c", "l", "i">>
ACME_CLI == <<"a", "c", "m", "e", "-", "c", "l", "i">>
HIDDEN_PKG == <<".", "p">>
CLI_DESCRIPTION == <<"A", "c", "m", "e">>
CLI_VERSION == <<"1", ".", "0", ".", "0">>
\* --python (its default)
PYVER == <<"3", ".", "1", "1">>

USER_MAIN == <<"print", "(", "1", ")", NL>>
USER_MAIN_MY_TOOL == <<"# ">> \o MY_TOOL \o <<NL, "print", "(", "2", ")", NL>>

USER_PRECOMMIT ==
    <<"repos:", NL, "  - repo: local", NL, "    hooks:", NL, "      - id: mine", NL, NL>>
BLACK_PRECOMMIT ==
    <<"repos:", NL, "  - repo: https://github.com/", "psf/black", NL,
      "    rev: 23.1.0", NL, "    hooks:", NL, "      - id: black">>
USER_PYPROJECT ==
    <<"[build-system]", NL, "requires = [\"hatchling\"]", NL, NL,
      "[tool.mypy]", NL, "strict = true", NL, SP, NL>>
PROJECT_PYPROJECT ==
    <<"[project]", NL, "name = \"x\"", NL, NL, "[tool.mypy]", NL, "strict = true">>
BAD_PYPROJECT == <<"[project]", NL, BAD_TOML, NL>>
HIDDEN_PYPROJECT ==
    <<"[tool.setuptools]", NL, PKG_OPEN>> \o HIDDEN_PKG \o <<PKG_CLOSE, NL>>
USER_CI == <<"name: docs", NL, "on: push", NL, "jobs: {}", NL, NL>>
RUFF_CI ==
    <<"jobs:", NL, "  a:", NL, "    steps:", NL,
      "      - run: ", "pip install ruff", NL,
      "      - run: ", "ruff format --check", " .", NL,
      "      - run: ", "ruff check", " .", NL,
      "  b:", NL, "    steps:", NL,
      "      - run: ", "pip install ruff", " pytest">>
USER_REQDEV == <<"pytest", NL, SP, SP, NL>>
RUFF_REQDEV == <<"ruff", "==0.5.0", NL, "black", "en", NL>>

NoFiles == [p \in {} |-> <<>>]
NoDirs == [d \in {} |-> NoDir]

\* a project: its root-level files and its sub-directories
Project(fs, ds) == [files |-> fs, dirs |-> ds]

\* the interpreters the projects are tried with: every project with a TOML
\* parser, the ones whose layout only pyproject.toml can tell also without
Interpreters(p) ==
    IF P_PYPROJECT \in DOMAIN p.files THEN BOOLEAN ELSE {TRUE}

OneDir(d, init, main) == [e \in {d} |-> [init |-> init, main |-> main]]

HandWritten ==
    [p \in {P_EDITORCONFIG, P_PRECOMMIT, P_PYPROJECT, P_CI, P_REQDEV} |->
        CASE p = P_EDITORCONFIG -> <<"root = true", NL>>
          [] p = P_PRECOMMIT -> USER_PRECOMMIT
          [] p = P_PYPROJECT -> USER_PYPROJECT
          [] p = P_CI -> USER_CI
          [] p = P_REQDEV -> USER_REQDEV]

HalfDone ==
    [p \in {P_PRECOMMIT, P_PYPROJECT, P_CI, P_REQDEV} |->
        CASE p = P_PRECOMMIT -> BLACK_PRECOMMIT
          [] p = P_PYPROJECT -> PROJECT_PYPROJECT
          [] p = P_CI -> RUFF_CI
          [] p = P_REQDEV -> RUFF_REQDEV]

\* the projects the tool is first run in
Projects ==
    { \* an empty directory
      Project(NoFiles, NoDirs),
      \* a flat project with hand-written configs that have none of the markers
      Project(WriteText(HandWritten, P_ROOTMAIN, USER_MAIN), NoDirs),
      \* a package with configs that have part of what the tool wants
      Project(HalfDone, OneDir(ACME_CLI, TRUE, <<USER_MAIN>>)),
      \* a flat project beside a directory that has a main.py and no __init__.py
      Project(WriteText(NoFiles, P_ROOTMAIN, USER_MAIN),
              OneDir(MY_TOOL, FALSE, <<USER_MAIN_MY_TOOL>>)),
      \* a flat project whose pyproject.toml does not parse
      Project(WriteText(WriteText(NoFiles, P_PYPROJECT, BAD_PYPROJECT),
                        P_ROOTMAIN, USER_MAIN), NoDirs),
      \* a package whose pyproject.toml does not parse
      Project(WriteText(NoFiles, P_PYPROJECT, BAD_PYPROJECT),
              OneDir(MY_TOOL, TRUE, <<USER_MAIN_MY_TOOL>>)),
      \* a root main.py beside a hidden package that pyproject.toml declares
      Project(WriteText(WriteText(NoFiles, P_PYPROJECT, HIDDEN_PYPROJECT),
                        P_ROOTMAIN, USER_MAIN),
              OneDir(HIDDEN_PKG, TRUE, <<USER_MAIN>>)),
      \* an empty directory named like the tool
      Project(NoFiles, OneDir(ACME_CLI, FALSE, <<>>)) }

\* the command lines: [dry, ruff_only, initialize, name, description,
\* version, stdin]
Plain(dry, ruff_only) ==
    [dry |-> dry, ruff_only |-> ruff_only, initialize |-> FALSE, name |-> <<>>,
     description |-> <<>>, version |-> <<>>, stdin |-> <<>>]

Initialize(dry, ruff_only, name, description, version, stdin) ==
    [dry |-> dry, ruff_only |-> ruff_only, initialize |-> TRUE, name |-> name,
     description |-> description, version |-> version, stdin |-> stdin]

Stdins ==
    { <<>>, <<<<>>>>, <<TYPED_NAME, <<>>>>, <<<<>>, <<>>, <<>>>>,
      <<TYPED_NAME, CLI_DESCRIPTION, CLI_VERSION>> }

ArgSet ==
    {Plain(d, r) : d \in BOOLEAN, r \in BOOLEAN}
    \cup {Initialize(d, r, CLI_NAME, CLI_DESCRIPTION, CLI_VERSION, <<>>) :
            d \in BOOLEAN, r \in BOOLEAN}
    \cup {Initialize(d, r, <<>>, <<>>, <<>>, s) :
            d \in BOOLEAN, r \in BOOLEAN, s \in Stdins}

--------------------------------------------------------------------------
(* main(), one action per step.  --no-venv, --no-format and                *)
(* --no-install-hooks are each read once, by the step they skip, and are   *)
(* drawn there.                                                            *)

NoNames == [project_name |-> <<>>, project_description |-> <<>>,
            project_version |-> <<>>, package_name |-> <<>>]

NoRets == [editorconfig |-> FALSE, precommit |-> FALSE, pyproject |-> FALSE,
           ci |-> FALSE, reqdev |-> FALSE]

\* what a step of main() did: its name, whether a flag skipped it, what it
\* returned, the warnings it printed, and the status of `ruff check --fix`
Did(name, skipped, ret, warns, checkrc) ==
    [name |-> name, skipped |-> skipped, ret |-> ret, warns |-> warns,
     checkrc |-> checkrc]

Snapshot == [files |-> files, dirs |-> dirs, venv |-> venv]

Init ==
    /\ \E p \in Projects :
        /\ files = p.files
        /\ dirs = p.dirs
        /\ tomllib \in Interpreters(p)
    /\ venv = NoVenv
    /\ pc = "idle"
    /\ args = Plain(FALSE, FALSE)
    /\ handle = "none"
    /\ names = NoNames
    /\ rets = NoRets
    /\ procs = {}
    /\ step = Did("idle", FALSE, FALSE, {}, "none")
    /\ exit = 0
    /\ snap = Snapshot
    /\ follow = "none"
    /\ prevRets = NoRets

\* the run before this one ended normally
Completed == pc = "done" /\ step.name = "hooks"

\* the command lines of a run that follows a finished one: the user runs the
\* same command again, or, after a dry run, the same command for real
Again(a) == {a, [a EXCEPT !.dry = FALSE]}

\* a new run of the tool: argparse, root = Path(...).resolve()
Start ==
    /\ pc \in {"idle", "done"}
    /\ \E a \in (IF pc = "idle" THEN ArgSet ELSE Again(args)) :
        /\ args' = a
        /\ follow' = IF Completed /\ ~args.dry /\ a = args THEN "rerun"
                     ELSE IF Completed /\ args.dry /\ a = [args EXCEPT !.dry = FALSE]
                     THEN "real_after_dry"
                     ELSE "none"
    /\ prevRets' = IF follow' = "real_after_dry" THEN rets ELSE NoRets
    /\ pc' = "setup"
    /\ handle' = "none"
    /\ names' = NoNames
    /\ rets' = NoRets
    /\ procs' = {}
    /\ step' = Did("start", FALSE, FALSE, {}, "none")
    /\ exit' = 0
    /\ snap' = Snapshot
    /\ UNCHANGED <<files, dirs, venv, tomllib>>

\* main() with --initialize: initialize_project, sys.exit(1) on EOF
SetupInitialize ==
    /\ pc = "setup"
    /\ args.initialize
    /\ LET r == initialize_project(dirs, ROOT_NAME, args.name, args.description,
                                   args.version, args.dry, args.stdin)
       IN IF r.cancelled
          THEN /\ pc' = "done"
               /\ exit' = 1
               /\ step' = Did("cancelled", FALSE, FALSE, {}, "none")
               /\ dirs' = r.dirs
               /\ UNCHANGED names
          ELSE /\ pc' = "venv"
               /\ dirs' = r.dirs
               /\ names' = [project_name |-> r.name,
                            project_description |-> r.description,
                            project_version |-> r.version,
                            package_name |-> r.package_name]
               /\ step' = Did("initialize", FALSE, FALSE, {}, "none")
               /\ UNCHANGED exit
    /\ UNCHANGED <<files, venv, args, handle, rets, procs, snap, follow, prevRets, tomllib>>

\* main() without --initialize: detect the package, convert a flat layout
SetupDetect ==
    /\ pc = "setup"
    /\ ~args.initialize
    /\ \E r \in DetectResults(files, dirs, tomllib) :
        IF r.kind = "raise"
        THEN /\ pc' = "done"
             /\ exit' = 1
             /\ step' = Did("raised", FALSE, FALSE, {}, "none")
             /\ UNCHANGED <<files, dirs, names>>
        ELSE LET has_flat_structure == P_ROOTMAIN \in DOMAIN files /\ r.kind = "none"
                 potential_name == infer_name_from_directory(ROOT_NAME)
                 c == ConvertFlat(files, dirs, potential_name)
             IN /\ pc' = "venv"
                /\ UNCHANGED exit
                /\ IF has_flat_structure
                   THEN /\ names' = [NoNames EXCEPT
                                        !.project_name = potential_name,
                                        !.package_name = ModuleName(potential_name)]
                        /\ files' = IF args.dry THEN files ELSE c.fs
                        /\ dirs' = IF args.dry THEN dirs ELSE c.dirs
                        /\ step' = Did("convert", FALSE, FALSE, {}, "none")
                   ELSE /\ names' = [NoNames EXCEPT !.package_name = r.name]
                        /\ step' = Did("detect", FALSE, FALSE, {}, "none")
                        /\ UNCHANGED <<files, dirs>>
    /\ UNCHANGED <<venv, args, handle, rets, procs, snap, follow, prevRets, tomllib>>

\* "Create venv and install dependencies (unless --no-venv)"
VenvStep ==
    /\ pc = "venv"
    /\ \E no_venv \in BOOLEAN : \E outcome \in VenvOutcomes :
        IF no_venv \/ args.dry
        THEN /\ step' = Did("venv", TRUE, FALSE, {}, "none")
             /\ UNCHANGED <<venv, handle, procs>>
        ELSE LET r == ensure_venv_and_deps(venv, args.ruff_only, args.dry, outcome)
             IN /\ venv' = r.venv
                /\ handle' = r.handle
                /\ procs' = procs \cup r.procs
                /\ step' = Did("venv", FALSE, r.handle = "venv", r.warns, "none")
    /\ pc' = "ensure"
    /\ UNCHANGED <<files, dirs, args, names, rets, exit, snap, follow, prevRets, tomllib>>

\* the five ensure_* calls of main(), in its order, with their results
EnsureAll(fs, a, n) ==
    LET e1 == ensure_editorconfig(fs, a.dry)
        e2 == ensure_precommit(e1.fs, a.ruff_only, a.dry)
        e3 == ensure_pyproject(e2.fs, a.ruff_only, PYVER, a.dry, n.project_name,
                               n.project_description, n.project_version,
                               n.package_name)
        e4 == ensure_ci(e3.fs, a.ruff_only, PYVER, a.dry)
        e5 == ensure_requirements_dev(e4.fs, a.ruff_only, a.dry)
    IN [fs |-> e5.fs,
        rets |-> [editorconfig |-> e1.ret, precommit |-> e2.ret,
                  pyproject |-> e3.ret, ci |-> e4.ret, reqdev |-> e5.ret]]

EnsureStep ==
    /\ pc = "ensure"
    /\ LET r == EnsureAll(files, args, names)
       IN /\ files' = r.fs
          /\ rets' = r.rets
          /\ step' = Did("ensure", FALSE,
                         \E k \in DOMAIN r.rets : r.rets[k], {}, "none")
    /\ pc' = "format"
    /\ UNCHANGED <<dirs, venv, args, handle, names, procs, exit, snap, follow,
                   prevRets, tomllib>>

\* "Format existing code (unless --no-format)"
FormatStep ==
    /\ pc = "format"
    /\ \E no_format \in BOOLEAN :
        IF no_format \/ args.dry
        THEN /\ step' = Did("format", TRUE, FALSE, {}, "none")
             /\ UNCHANGED procs
        ELSE \E rv \in VersionOutcomes(venv, get_tool_command(venv, handle, RUFF)) :
             \E fmt \in (IF rv = "ok" THEN ToolRuns ELSE {"clean"}) :
             \E chk \in (IF rv = "ok" THEN {0, 1, 2} ELSE {0}) :
             \E bv \in (IF rv = "ok" /\ ~args.ruff_only
                        THEN VersionOutcomes(venv, get_tool_command(venv, handle, BLACK))
                        ELSE {"notfound"}) :
             \E blk \in (IF bv = "ok" THEN ToolRuns ELSE {"clean"}) :
                LET r == format_code(venv, args.ruff_only, args.dry, handle,
                                     rv, fmt, chk, bv, blk)
                IN /\ step' = Did("format", FALSE, r.ret, r.warns, r.checkrc)
                   /\ procs' = procs \cup r.procs
    /\ pc' = "hooks"
    /\ UNCHANGED <<files, dirs, venv, args, handle, names, rets, exit, snap,
                   follow, prevRets, tomllib>>

\* "Install pre-commit hooks (unless --no-install-hooks)", then main() returns
HooksStep ==
    /\ pc = "hooks"
    /\ \E no_install_hooks \in BOOLEAN :
        IF no_install_hooks \/ args.dry
        THEN /\ step' = Did("hooks", TRUE, FALSE, {}, "none")
             /\ UNCHANGED procs
        ELSE \E pv \in VersionOutcomes(venv, get_tool_command(venv, handle, PRE_COMMIT)),
                inst \in {"ok", "fail"} :
                LET r == install_precommit_hooks(files, venv, args.dry, handle, pv, inst)
                IN /\ step' = Did("hooks", FALSE, r.ret, r.warns, "none")
                   /\ procs' = procs \cup r.procs
    /\ pc' = "done"
    /\ exit' = 0
    /\ UNCHANGED <<files, dirs, venv, args, handle, names, rets, snap, follow,
                   prevRets, tomllib>>

Next ==
    \/ Start
    \/ SetupInitialize
    \/ SetupDetect
    \/ VenvStep
    \/ EnsureStep
    \/ FormatStep
    \/ HooksStep

Spec == Init /\ [][Next]_vars

--------------------------------------------------------------------------
(* The ensure_* functions called on their own, one call on one existing    *)
(* file, over every text of up to MaxLines lines drawn from the lines      *)
(* below.                                                                  *)

MaxLines == 3

PRECOMMIT_LINES ==
    { <<"repos:">>, <<"  - repo: local">>,
      <<"  - repo: https://github.com/astral-sh/", "ruff-pre-commit">>,
      <<"  - repo: https://github.com/", "psf/black">> }

PYPROJECT_LINES ==
    { <<"[build-system]">>, <<"[project]">>, <<"[project.urls]">>,
      <<"[tool.mypy]">>, <<"strict = true">>, <<"[tool.ruff]">> }

CI_LINES ==
    { <<"      - run: ", "pip install ruff">>,
      <<"      - run: ", "pip install ruff", " pytest">>,
      <<"      - run: ", "ruff format --check", " . && ", "ruff check", " .">>,
      <<"      - run: ", "black --check", " .">>,
      <<"  docs:">> }

REQDEV_LINES ==
    { <<"ruff", "==0.5.0">>, <<"black", "en">>, <<"pre-commit">>,
      <<"#", " pinned">>, <<SP, "ruff">> }

\* how a file can end: no newline, a newline, a last line of blanks
Endings == { <<>>, <<NL>>, <<NL, SP, NL>> }

LinesUpTo(A, n) == UNION {[1..k -> A] : k \in 0..n}

FileTexts(A) == {JoinLines(ls) \o e : ls \in LinesUpTo(A, MaxLines), e \in Endings}

OneFile(path, txt) == [q \in {path} |-> txt]

MergeInputs ==
    {OneFile(P_PRECOMMIT, t) : t \in FileTexts(PRECOMMIT_LINES)}
    \cup {OneFile(P_PYPROJECT, t) : t \in FileTexts(PYPROJECT_LINES)}
    \cup {OneFile(P_CI, t) : t \in FileTexts(CI_LINES)}
    \cup {OneFile(P_REQDEV, t) : t \in FileTexts(REQDEV_LINES)}

\* the names main() hands to ensure_pyproject: none, or those of a conversion
MergeNames ==
    {NoNames,
     [NoNames EXCEPT !.project_name = MY_TOOL, !.package_name = ModuleName(MY_TOOL)]}

InitMerge ==
    /\ files \in MergeInputs
    /\ \E d \in BOOLEAN, r \in BOOLEAN : args = Plain(d, r)
    /\ names \in (IF P_PYPROJECT \in DOMAIN files THEN MergeNames ELSE {NoNames})
    /\ dirs = NoDirs
    /\ venv = NoVenv
    /\ pc = "call"
    /\ handle = "none"
    /\ rets = NoRets
    /\ procs = {}
    /\ step = Did("idle", FALSE, FALSE, {}, "none")
    /\ exit = 0
    /\ snap = Snapshot
    /\ follow = "none"
    /\ prevRets = NoRets
    /\ tomllib = TRUE

\* what a call leaves behind
Returned(name, r) ==
    /\ files' = r.fs
    /\ step' = Did(name, FALSE, r.ret, {}, "none")
    /\ pc' = "returned"
    /\ UNCHANGED <<dirs, venv, args, handle, names, rets, procs, exit, snap,
                   follow, prevRets, tomllib>>

CallPrecommit ==
    /\ pc = "call" /\ P_PRECOMMIT \in DOMAIN files
    /\ Returned("ensure_precommit", ensure_precommit(files, args.ruff_only, args.dry))

CallPyproject ==
    /\ pc = "call" /\ P_PYPROJECT \in DOMAIN files
    /\ Returned("ensure_pyproject",
                ensure_pyproject(files, args.ruff_only, PYVER, args.dry,
                                 names.project_name, names.project_description,
                                 names.project_version, names.package_name))

CallCi ==
    /\ pc = "call" /\ P_CI \in DOMAIN files
    /\ Returned("ensure_ci", ensure_ci(files, args.ruff_only, PYVER, args.dry))

CallReqDev ==
    /\ pc = "call" /\ P_REQDEV \in DOMAIN files
    /\ Returned("ensure_requirements_dev",
                ensure_requirements_dev(files, args.ruff_only, args.dry))

NextMerge == CallPrecommit \/ CallPyproject \/ CallCi \/ CallReqDev

SpecMerge == InitMerge /\ [][NextMerge]_vars

--------------------------------------------------------------------------
(* Properties of whole runs, checked under Spec.                           *)

ARTIFACTS == {P_EDITORCONFIG, P_PRECOMMIT, P_PYPROJECT, P_CI, P_REQDEV}

\* C1: a run that repeats the command of a completed non-dry run leaves the
\* five artifacts and the package directories as it found them, byte for
\* byte, and each of its ensure_* calls returns False
C1_Idempotence ==
    follow = "rerun" =>
        /\ files = snap.files
        /\ dirs = snap.dirs
        /\ rets = NoRets

\* a repeated run has finished on a project that holds the five artifacts
\* and a package
C1_Witness ==
    /\ follow = "rerun"
    /\ Completed
    /\ ARTIFACTS \subseteq DOMAIN files
    /\ \E d \in DOMAIN dirs : dirs[d].init /\ dirs[d].main # <<>>

\* C2: in a run with --dry-run no file or directory is created, written,
\* moved or deleted, .venv is left as it was, and no child process is started
C2_DryRunPure ==
    (pc # "idle" /\ args.dry) =>
        /\ files = snap.files
        /\ dirs = snap.dirs
        /\ venv = snap.venv
        /\ procs = {}

\* a dry run has finished that announced changes to artifacts and had a
\* package to set up (--initialize, or a flat layout to convert)
C2_Witness ==
    /\ args.dry
    /\ Completed
    /\ \E k \in DOMAIN rets : rets[k]
    /\ names.project_name # <<>>

\* C3: each ensure_* call of a real run returns what the same call returned
\* in the dry run of the same command that came just before on the same state
C3_DryReportsReal ==
    (follow = "real_after_dry" /\ pc \in {"format", "hooks", "done"}) =>
        rets = prevRets

\* a real run after its dry run has finished; some artifacts changed, some
\* did not
C3_Witness ==
    /\ follow = "real_after_dry"
    /\ Completed
    /\ \E k \in DOMAIN rets : rets[k]
    /\ \E k \in DOMAIN rets : ~rets[k]

\* the two layouts
Flat(fs) == P_ROOTMAIN \in DOMAIN fs
Package(ds) == \E d \in DOMAIN ds : ds[d].init /\ ds[d].main # <<>>

\* C6: after a non-dry run without --initialize that started on a root with
\* main.py and no package, main.py is gone from the root and the directory
\* named after the inferred tool name holds __init__.py and a main.py with
\* the text of the root main.py
C6_Converted ==
    (/\ pc = "done" /\ ~args.dry /\ ~args.initialize
     /\ Flat(snap.files)
     /\ \A d \in DOMAIN snap.dirs : ~snap.dirs[d].init) =>
        LET n == infer_name_from_directory(ROOT_NAME)
        IN /\ ~Flat(files)
           /\ n \in DOMAIN dirs
           /\ dirs[n].init
           /\ dirs[n].main = <<snap.files[P_ROOTMAIN]>>

\* C8: a completed non-dry run that started with at most one layout does not
\* end with both a root main.py and a package that has its own main.py
C8_OneLayout ==
    (Completed /\ ~args.dry /\ ~(Flat(snap.files) /\ Package(snap.dirs))) =>
        ~(Flat(files) /\ Package(dirs))

\* C9: no step of any run removes a directory that has __init__.py, its
\* __init__.py or its main.py, and no step creates main.py at the root
C9_OneWay ==
    [][/\ \A d \in DOMAIN dirs :
            dirs[d].init =>
                /\ d \in DOMAIN dirs'
                /\ dirs'[d].init
                /\ (dirs[d].main # <<>> => dirs'[d].main # <<>>)
       /\ (~Flat(files) => ~Flat(files'))]_vars

\* a run has finished on the package that the run before it made out of the
\* root main.py
C9_Witness ==
    /\ follow = "rerun"
    /\ Completed
    /\ ~args.initialize
    /\ ~Flat(files)
    /\ MY_TOOL \in DOMAIN dirs
    /\ dirs[MY_TOOL].init
    /\ dirs[MY_TOOL].main = <<USER_MAIN>>

\* C10: every run that is not cancelled at a prompt ends with exit status 0,
\* after its last step
C10_ExitZero ==
    (pc = "done" /\ step.name # "cancelled") =>
        /\ exit = 0
        /\ step.name = "hooks"

--------------------------------------------------------------------------
(* Properties of single ensure_* calls, checked under SpecMerge.           *)

\* the file the call was made on, before and after
Old == snap.files[CHOOSE q \in DOMAIN snap.files : TRUE]
New == files[CHOOSE q \in DOMAIN files : TRUE]

\* the lines of a text that start with the tokens of name
LinesStarting(txt, name) ==
    LET lines == SplitLines(txt)
    IN {i \in 1..Len(lines) : StartsWith(lines[i], name)}

\* hand-written content in which the call recognizes nothing
HandWrittenOnly ==
    /\ Strip(Old) # <<>>
    /\ CASE step.name = "ensure_precommit" ->
                \A m \in {"ruff-pre-commit", "psf/black"} : ~Contains(Old, <<m>>)
         [] step.name = "ensure_pyproject" ->
                \A m \in {"[project]", "[project.scripts]", "[tool.ruff]",
                          "[tool.black]"} : ~Contains(Old, <<m>>)
         [] step.name = "ensure_ci" ->
                \A m \in {"ruff format --check", "ruff check", "black --check",
                          "pip install ruff", "pip install black"} :
                    ~Contains(Old, <<m>>)
         [] step.name = "ensure_requirements_dev" ->
                \A m \in {"ruff", "pre-commit", "black"} :
                    LinesStarting(Old, <<m>>) = {}
         [] OTHER -> FALSE

C5_ReqDevMerge ==
    (pc = "returned" /\ step.name = "ensure_requirements_dev") =>
        LET want == Want(args.ruff_only)
            present(w) == LinesStarting(Old, <<w[1]>>) # {}
        IN /\ step.ret = (\E i \in 1..Len(want) : ~present(want[i]))
           /\ ~args.dry =>
                \A i \in 1..Len(want) :
                    LET w == want[i]
                        before == Cardinality(LinesStarting(Old, <<w[1]>>))
                        after == Cardinality(LinesStarting(New, <<w[1]>>))
                    IN IF present(w)
                       THEN after = before
                       ELSE /\ after = 1
                            /\ \E k \in LinesStarting(New, <<w[1]>>) :
                                   SplitLines(New)[k] = w

\* ruff is pinned to another version, black is absent and a line starts with
\* "blacken": the call added pre-commit and nothing else
C5_Witness ==
    /\ pc = "returned" /\ step.name = "ensure_requirements_dev"
    /\ ~args.dry /\ ~args.ruff_only
    /\ Contains(Old, <<"ruff", "==0.5.0">>)
    /\ Contains(Old, <<"black", "en">>)
    /\ ~Contains(Old, <<"pre-commit">>)
    /\ step.ret
    /\ Len(SplitLines(RStrip(New))) = Len(SplitLines(RStrip(Old))) + 2

\* C7: on a ci.yml that has both ruff steps and no Black step, ensure_ci
\* (not formatter-only) adds one Black check step and one "pip install
\* black", however often "pip install ruff" occurs, and keeps every
\* existing line
C7_CiMerge ==
    (/\ pc = "returned" /\ step.name = "ensure_ci"
     /\ ~args.dry /\ ~args.ruff_only
     /\ Contains(Old, <<"ruff format --check">>)
     /\ Contains(Old, <<"ruff check">>)
     /\ ~Contains(Old, <<"black --check">>)
     /\ ~Contains(Old, <<"pip install black">>)) =>
        /\ CountOcc(New, <<"black --check">>) = 1
        /\ CountOcc(New, <<"pip install black">>)
             = (IF Contains(Old, <<"pip install ruff">>) THEN 1 ELSE 0)
        /\ IsSubseq(SplitLines(RStrip(Old)), SplitLines(New))

\* C11: with --initialize the run is cancelled exactly when the input ends
\* at one of the prompts it shows; a cancelled run has a non-zero exit
\* status, has changed no file, directory or .venv, has started no child
\* process and has run none of the later steps
C11_CancelClean ==
    /\ (pc \notin {"idle", "setup"} /\ args.initialize) =>
          ((step.name = "cancelled")
             <=> (Prompts(args.name, args.description, args.version)
                    > Len(args.stdin)))
    /\ step.name = "cancelled" =>
          /\ pc = "done"
          /\ exit # 0
          /\ files = snap.files
          /\ dirs = snap.dirs
          /\ venv = snap.venv
          /\ procs = {}
          /\ rets = NoRets
          /\ handle = "none"

\* a non-dry run was cancelled at the third prompt, the one for the version,
\* after a name had been typed
C11_Witness ==
    /\ step.name = "cancelled"
    /\ ~args.dry
    /\ Len(args.stdin) = 2
    /\ args.stdin[1] = TYPED_NAME

\* C12: a run that finds a pyproject.toml that is not valid TOML raises no
\* error: it is never aborted, and when it ends it has exit status 0 with
\* the Ruff block present in the file of a non-dry run
C12_Tolerated ==
    (/\ P_PYPROJECT \in DOMAIN snap.files
     /\ ~TomlValid(snap.files[P_PYPROJECT])
     /\ pc = "done")
       => /\ step.name # "raised"
          /\ exit = 0
          /\ ~args.dry => Contains(files[P_PYPROJECT], <<"[tool.ruff]">>)

\* the child processes of the run that run one of the three tools
ToolProcs == {p \in procs : p.name \in {RUFF, BLACK, PRE_COMMIT, ModuleName(PRE_COMMIT)}}

\* C13: when creating .venv or installing into it fails (the venv step ends
\* with a warning), ensure_venv_and_deps has returned no handle and the run
\* goes on to the ensure step; while the run has no handle, every ruff,
\* black and pre-commit process it starts is the bare name looked up on the
\* search path
C13_FallsBack ==
    /\ (step.name = "venv" /\ step.warns # {}) =>
          (handle = "none" /\ pc = "ensure" /\ exit = 0)
    /\ handle = "none" => \A p \in ToolProcs : p.how = "path"

\* a run in which pip install failed has ended after starting ruff, black
\* and pre-commit from the search path
C13_Witness ==
    /\ pc = "done"
    /\ step.name = "hooks"
    /\ handle = "none"
    /\ venv.exists /\ venv.python /\ venv.bin = {}
    /\ [how |-> "module", name |-> PIP] \in procs
    /\ {[how |-> "path", name |-> t] : t \in {RUFF, BLACK, PRE_COMMIT}} \subseteq procs

\* C14: once a non-dry run with --initialize is past the initializer, the
\* directory named after the normalized tool name exists and holds both
\* __init__.py and main.py, whatever the root held before
C14_CompletePackage ==
    (/\ args.initialize
     /\ ~args.dry
     /\ pc \in {"venv", "ensure", "format", "hooks"} \/ Completed)
       => /\ names.project_name \in DOMAIN dirs
          /\ dirs[names.project_name].init
          /\ dirs[names.project_name].main # <<>>

--------------------------------------------------------------------------
(* validate_name on its own: a name of up to MaxName characters is        *)
(* normalized, and the result is normalized once more.                    *)

MaxName == 4

\* upper and lower case letters, a digit, the three separators, and two
\* characters that are neither
NAME_CHARS == {"A", "b", "7", " ", "_", "-", "!", "."}

RECURSIVE NamesUpTo(_)
NamesUpTo(n) ==
    IF n = 0 THEN {<<>>}
    ELSE LET shorter == NamesUpTo(n - 1)
         IN shorter \cup {Append(s, c) : s \in {t \in shorter : Len(t) = n - 1},
                                         c \in NAME_CHARS}

InitName ==
    /\ \E n \in NamesUpTo(MaxName) :
          args = Initialize(TRUE, FALSE, n, CLI_DESCRIPTION, CLI_VERSION, <<>>)
    /\ files = NoFiles
    /\ dirs = NoDirs
    /\ venv = NoVenv
    /\ pc = "call"
    /\ handle = "none"
    /\ names = NoNames
    /\ rets = NoRets
    /\ procs = {}
    /\ step = Did("idle", FALSE, FALSE, {}, "none")
    /\ exit = 0
    /\ snap = Snapshot
    /\ follow = "none"
    /\ prevRets = NoRets
    /\ tomllib = TRUE

\* name = validate_name(name)
CallValidateName ==
    /\ pc = "call"
    /\ names' = [names EXCEPT !.project_name = validate_name(args.name)]
    /\ pc' = "returned"
    /\ step' = Did("validate_name", FALSE, FALSE, {}, "none")
    /\ UNCHANGED <<files, dirs, venv, args, handle, rets, procs, exit, snap,
                   follow, prevRets, tomllib>>

\* the result given as the name of a later call
CallValidateNameAgain ==
    /\ pc = "returned"
    /\ names' = [names EXCEPT !.package_name = validate_name(names.project_name)]
    /\ pc' = "again"
    /\ step' = Did("validate_name", FALSE, FALSE, {}, "none")
    /\ UNCHANGED <<files, dirs, venv, args, handle, rets, procs, exit, snap,
                   follow, prevRets, tomllib>>

NextName == CallValidateName \/ CallValidateNameAgain

SpecName == InitName /\ [][NextName]_vars

IsAlnum(c) == c \in Digits \/ \E i \in 1..26 : LowerCase[i] = c

IsSeparator(c) == c \in {" ", "_", "-"}

\* the position in s of its k-th character of [a-z0-9]
NthAlnum(s, k) ==
    CHOOSE i \in 1..Len(s) :
        IsAlnum(s[i]) /\ Cardinality({j \in 1..i : IsAlnum(s[j])}) = k

\* r is groups of [a-z0-9] joined by single hyphens
HyphenJoined(r) ==
    /\ r # <<>>
    /\ \A i \in 1..Len(r) : IsAlnum(r[i]) \/ r[i] = "-"
    /\ r[1] # "-" /\ r[Len(r)] # "-"
    /\ \A i \in 1..(Len(r) - 1) : ~(r[i] = "-" /\ r[i + 1] = "-")

\* r is what the five steps make of the name: its letters and digits are
\* those of the lowered name in order, and two neighbours are parted by a
\* hyphen exactly when a space, underscore or hyphen stood between them
NormalizedFrom(r, name) ==
    LET low == LowerStr(name)
        n == Len(SelectSeq(low, IsAlnum))
    IN IF n = 0 THEN r = MY_TOOL
       ELSE /\ HyphenJoined(r)
            /\ SelectSeq(r, IsAlnum) = SelectSeq(low, IsAlnum)
            /\ \A k \in 1..(n - 1) :
                 (NthAlnum(r, k + 1) = NthAlnum(r, k) + 2)
                   <=> (\E j \in (NthAlnum(low, k) + 1)..(NthAlnum(low, k + 1) - 1) :
                           IsSeparator(low[j]))

\* C15: for every name, validate_name returns 'my-tool' when no letter or
\* digit is left and otherwise the lowered letters and digits of the name
\* in groups joined by single hyphens, a hyphen standing where the name had
\* spaces, underscores or hyphens; normalizing the result again returns it
\* unchanged
C15_Normalized ==
    /\ pc # "call" =>
          /\ NormalizedFrom(names.project_name, args.name)
          /\ HyphenJoined(names.project_name)
    /\ pc = "again" => names.package_name = names.project_name

\* a name with an upper case letter and a run of two separators has been
\* normalized twice
C15_Witness ==
    /\ pc = "again"
    /\ args.name = <<"A", " ", "_", "b">>
    /\ names.project_name = <<"a", "-", "b">>
    /\ names.package_name = <<"a", "-", "b">>

\* what the tool writes for Black: the hook, the pyproject section, the CI
\* step and install line, the requirement
BLACK_MARKS ==
    {"psf/black", "      - id: black", "[tool.black]", "black --check",
     "pip install black", "black"}

\* the text the run found at a path, empty when the file was not there
Found(path) == IF path \in DOMAIN snap.files THEN snap.files[path] ELSE <<>>

\* C16: in a run with --ruff-only, every file has as many Black hooks,
\* [tool.black] sections, 'black --check' steps, 'pip install black' lines
\* and black requirements as the run found in it, a file that had one keeps
\* all its lines in order, black is not put into the environment and no
\* black process is started
C16_NoBlack ==
    (args.ruff_only /\ pc # "idle") =>
        /\ \A path \in DOMAIN files : \A m \in BLACK_MARKS :
              /\ CountOcc(files[path], <<m>>) = CountOcc(Found(path), <<m>>)
              /\ Contains(Found(path), <<m>>) =>
                    IsSubseq(SplitLines(RStrip(Found(path))), SplitLines(files[path]))
        /\ BLACK \in venv.bin => BLACK \in snap.venv.bin
        /\ \A p \in procs : p.name # BLACK

\* a non-dry --ruff-only run has ended that found a Black hook and a line
\* starting with "black", changed both files, built the environment and ran
\* ruff
C16_Witness ==
    /\ args.ruff_only /\ ~args.dry /\ Completed
    /\ Contains(Found(P_PRECOMMIT), <<"psf/black">>)
    /\ Contains(Found(P_REQDEV), <<"black">>)
    /\ files[P_PRECOMMIT] # Found(P_PRECOMMIT)
    /\ files[P_REQDEV] # Found(P_REQDEV)
    /\ venv.bin = {RUFF, PRE_COMMIT}
    /\ \E p \in procs : p.name = RUFF

--------------------------------------------------------------------------
(* get_tool_command on its own, in both files that define it:             *)
(* src/karasu/main.py and the script src/main.py.                         *)

\* get_tool_command of src/main.py: "Fallback to python -m" with the tool
\* name as it is
main_get_tool_command(v, h, tool) ==
    IF h = "venv"
    THEN IF tool \in v.bin
         THEN [how |-> "bin", name |-> tool]
         ELSE [how |-> "module", name |-> tool]
    ELSE [how |-> "path", name |-> tool]

TOOLS == {RUFF, BLACK, PRE_COMMIT}

\* the environments a handle can point into: no python (creation broke
\* off), or python with some of the tools' scripts beside it
Venvs ==
    {NoVenv, [exists |-> TRUE, python |-> FALSE, bin |-> {}]}
      \cup {[exists |-> TRUE, python |-> TRUE, bin |-> b] : b \in SUBSET TOOLS}

InitTool ==
    /\ venv \in Venvs
    /\ handle \in (IF venv.exists THEN {"venv", "none"} ELSE {"none"})
    /\ files = NoFiles
    /\ dirs = NoDirs
    /\ pc = "call"
    /\ args = Plain(FALSE, FALSE)
    /\ names = NoNames
    /\ rets = NoRets
    /\ procs = {}
    /\ step = Did("idle", FALSE, FALSE, {}, "none")
    /\ exit = 0
    /\ snap = Snapshot
    /\ follow = "none"
    /\ prevRets = NoRets
    /\ tomllib = TRUE

\* what a call leaves behind: the command it returned
Resolved(name, cmd) ==
    /\ procs' = {cmd}
    /\ step' = Did(name, FALSE, TRUE, {}, "none")
    /\ pc' = "returned"
    /\ UNCHANGED <<files, dirs, venv, args, handle, names, rets, exit, snap,
                   follow, prevRets, tomllib>>

\* get_tool_command(root, venv_python, tool) of src/karasu/main.py
CallGetToolCommand ==
    /\ pc = "call"
    /\ \E tool \in TOOLS :
          Resolved("karasu.main.get_tool_command", get_tool_command(venv, handle, tool))

\* get_tool_command(root, venv_python, tool) of src/main.py
CallMainGetToolCommand ==
    /\ pc = "call"
    /\ \E tool \in TOOLS :
          Resolved("main.get_tool_command", main_get_tool_command(venv, handle, tool))

NextTool == CallGetToolCommand \/ CallMainGetToolCommand

SpecTool == InitTool /\ [][NextTool]_vars

\* C17: the command get_tool_command returns is, with a handle, the script
\* of a tool that lies beside the interpreter, or the interpreter with -m
\* and the underscored name of a tool whose script does not lie there; and
\* without a handle the bare name of a tool
C17_Resolution ==
    pc = "returned" =>
        \A cmd \in procs :
            IF handle = "venv"
            THEN \/ cmd.how = "bin" /\ cmd.name \in venv.bin
                 \/ /\ cmd.how = "module"
                    /\ cmd.name \in {ModuleName(t) : t \in TOOLS \ venv.bin}
            ELSE cmd.how = "path" /\ cmd.name \in TOOLS

\* C18: when format_code has run ruff check --fix, status 0 or 1 makes the
\* step report that formatting happened and gives no warning about the
\* check, any other status gives the warning; either way black has been
\* started unless the run is formatter-only, and the run is at the hook
\* step
C18_CheckStatus ==
    (step.name = "format" /\ step.checkrc # "none") =>
        /\ step.checkrc \in {"0", "1"} =>
              (step.ret /\ "ruff check had errors" \notin step.warns)
        /\ step.checkrc \notin {"0", "1"} => "ruff check had errors" \in step.warns
        /\ ~args.ruff_only => \E p \in procs : p.name = BLACK
        /\ pc = "hooks"
        /\ exit = 0

\* ruff check --fix ended with status 1 in a run that is not formatter-only:
\* the step reports formatting without any warning
C18_Witness ==
    /\ step.name = "format"
    /\ step.checkrc = "1"
    /\ step.ret
    /\ step.warns = {}
    /\ ~args.ruff_only
    /\ \E p \in procs : p.name = BLACK

\* line.strip() is not empty
NonBlank(lines) == SelectSeq(lines, LAMBDA l : Strip(l) # <<>>)

\* the first line that holds the header
HeaderLine(lines, header) ==
    CHOOSE i \in 1..Len(lines) :
        /\ Contains(lines[i], <<header>>)
        /\ \A j \in 1..(i - 1) : ~Contains(lines[j], <<header>>)

\* a line that opens a section
IsHeader(line) == LET s == Strip(line) IN Len(s) > 0 /\ s[1] \in SectionHeaders

\* the last line of the section whose header is on line b
SectionEnd(lines, b) ==
    CHOOSE e \in b..Len(lines) :
        /\ \A j \in (b + 1)..e : ~IsHeader(lines[j])
        /\ e < Len(lines) => IsHeader(lines[e + 1])

\* C19: when ensure_pyproject has a project name and the file has no
\* [project] section, the [project] block stands right after the
\* [build-system] section (that section's header and all its key lines come
\* before it, and nothing else does) when the file has one, and at the top
\* of the file otherwise
C19_ProjectPlacement ==
    (/\ pc = "returned" /\ step.name = "ensure_pyproject" /\ ~args.dry
     /\ names.project_name # <<>>
     /\ ~Contains(Old, <<"[project]">>)) =>
        LET old == SplitLines(Old)
            new == NonBlank(SplitLines(New))
        IN /\ Contains(New, <<"[project]">>)
           /\ IF Contains(Old, <<"[build-system]">>)
              THEN LET b == HeaderLine(old, "[build-system]")
                       e == SectionEnd(old, b)
                       p == HeaderLine(new, "[project]")
                   IN SubSeq(new, 1, p - 1) = NonBlank(SubSeq(old, 1, e))
              ELSE StartsWith(New, <<"[project]">>)

\* the first line after line k that opens a section other than [project...],
\* or the line after the last one when there is none
NextSection(lines, k) ==
    LET later == {j \in (k + 1)..Len(lines) :
                     IsHeader(lines[j]) /\ Strip(lines[j])[1] \notin ProjectHeaders}
    IN IF later = {} THEN Len(lines) + 1
       ELSE CHOOSE j \in later : \A i \in later : j <= i

\* C20: when the file has a [project] section and no [project.scripts] and
\* ensure_pyproject has a project name, one scripts block is inserted, and
\* what stands before it is the file up to the first section header that
\* follows [project] and is not a [project...] header, or the whole file
\* when no such header exists
C20_ScriptsPlacement ==
    (/\ pc = "returned" /\ step.name = "ensure_pyproject" /\ ~args.dry
     /\ names.project_name # <<>>
     /\ Contains(Old, <<"[project]">>)
     /\ ~Contains(Old, <<"[project.scripts]">>)) =>
        LET old == SplitLines(Old)
            new == NonBlank(SplitLines(New))
            boundary == NextSection(old, HeaderLine(old, "[project]"))
        IN /\ CountOcc(New, <<"[project.scripts]">>) = 1
           /\ SubSeq(new, 1, HeaderLine(new, "[project.scripts]") - 1)
                = NonBlank(SubSeq(old, 1, boundary - 1))

\* C21: whenever a run holds a handle returned by ensure_venv_and_deps, the
\* .venv has its python and the pinned dependencies of the run's mode
\* installed beside it
C21_UsableHandle ==
    handle = "venv" =>
        /\ venv.exists
        /\ venv.python
        /\ Deps(args.ruff_only) \subseteq venv.bin

\* C22: when a non-dry run has written a [project.scripts] entry
\* '<pkg>.main:main' into pyproject.toml, a directory named exactly <pkg>
\* exists under the root and holds main.py
C22_EntryPointOnDisk ==
    (/\ ~args.dry
     /\ names.package_name # <<>>
     /\ P_PYPROJECT \in DOMAIN files
     /\ Contains(files[P_PYPROJECT], <<"[project.scripts]", NL>>)
     /\ Contains(files[P_PYPROJECT], names.package_name \o <<".main:main">>)
     /\ ~Contains(Found(P_PYPROJECT), names.package_name \o <<".main:main">>)) =>
        /\ names.package_name \in DOMAIN dirs
        /\ dirs[names.package_name].main # <<>>

\* C23: during a run every main.py that the run found inside a directory
\* still has the content it had, and the root main.py is gone only when a
\* package holds its content
C23_EntryFileKept ==
    /\ \A d \in DOMAIN snap.dirs :
          snap.dirs[d].main # <<>> =>
              (d \in DOMAIN dirs /\ dirs[d].main = snap.dirs[d].main)
    /\ (P_ROOTMAIN \in DOMAIN snap.files /\ P_ROOTMAIN \notin DOMAIN files) =>
          \E d \in DOMAIN dirs : dirs[d].main = <<snap.files[P_ROOTMAIN]>>

\* C24: when the existing .pre-commit-config.yaml has at most one top-level
\* 'repos:' line, the file ensure_precommit writes has exactly one, and it
\* stands before every hook block of the file
C24_OneReposList ==
    (/\ pc = "returned" /\ step.name = "ensure_precommit" /\ ~args.dry
     /\ Cardinality(LinesStarting(Old, <<"repos:">>)) <= 1) =>
        /\ Cardinality(LinesStarting(New, <<"repos:">>)) = 1
        /\ \A k \in 1..Len(SplitLines(New)) :
              StartsWith(SplitLines(New)[k], <<"  - repo: local">>)
              \/ StartsWith(SplitLines(New)[k], <<"  - repo: https://github.com/">>)
              \/ StartsWith(SplitLines(New)[k], <<"  - repo: https://github.com/astral-sh/">>)
                 => \E r \in LinesStarting(New, <<"repos:">>) : r < k

====
